---- MODULE Spec2Model ----
(***************************************************************************)
(* The control core of hujingzhi (src/src/lib.rs): the port pool, the      *)
(* process launcher, the housekeeping pass and the control surface.        *)
(*                                                                         *)
(* A housekeeping pass is one sequential piece of code that holds the      *)
(* state lock from its first line to its return.  The model follows it     *)
(* with a program counter (pc): every step of the pass is forced, in the   *)
(* order of the source, and the requests of the control surface are only   *)
(* enabled while the lock is free.  What the pass cannot decide itself     *)
(* (bind tests, spawn results, probe results, child exits, IPVS errors,    *)
(* the iteration order of a HashMap, the time slept) is drawn with \E.     *)
(***************************************************************************)
EXTENDS Integers, Sequences, FiniteSets, TLC

VARIABLES
  target_text,          \* SyncedGlobalState.target_text
  target,               \* SyncedGlobalState.target
  processed_services,   \* SyncedGlobalState.processed_services
  processes_by_name,    \* SyncedGlobalState.processes_by_name
  free_loopback_ports,  \* SyncedGlobalState.free_loopback_ports (front = index 1)
  allocated_ports,      \* SyncedGlobalState.allocated_ports
  last_ipvs_state,      \* SyncedGlobalState.last_ipvs_state (<<>> = None, <<x>> = Some(x))
  rate_limiting,        \* RATE_LIMITING: key -> time elapsed since the stored instant
  counter,              \* COUNTER of get_counter
  log_events,           \* the events the step just taken pushed to LOG_EVENTS
  ipvs,                 \* the kernel's IPVS table as the adapter leaves it
  pc,                   \* position of the housekeeping task
  hk,                   \* locals of the pass in progress
  response,             \* what the step just taken answered its client (<<>>: nothing)
  env,                  \* what the surroundings of this run may do (never changes)
  ticks                 \* passes of the loop of server_main counted so far

vars == <<target_text, target, processed_services, processes_by_name,
          free_loopback_ports, allocated_ports, last_ipvs_state, rate_limiting,
          counter, log_events, ipvs, pc, hk, response, env, ticks>>

synced == <<target_text, target, processed_services, processes_by_name,
            free_loopback_ports, allocated_ports, last_ipvs_state>>

----------------------------------------------------------------------------
(* Program constants.                                                      *)

HOUSEKEEPING_INTERVAL == 3
START_INTERVAL == 2
HEALTH_INTERVAL == 60
SERVICE_IP_PREFIX == <<127, 0, 0>>

(* Configuration and bounds of the model.                                  *)

\* config.server.loopback_ports = (PoolLo, PoolLo + PoolSize)
PoolLo == 20000
PoolSize == 2
\* config.server.admin_port
AdminPort == 9000

PoolRange == PoolLo .. (PoolLo + PoolSize - 1)

\* The time that passes from one pass to the next: tokio's sleep lasts at
\* least HOUSEKEEPING_INTERVAL, and a pass takes as long as its probes.
Delays == {HOUSEKEEPING_INTERVAL, HEALTH_INTERVAL}

\* How many sleeps in a row may be short while a rate-limit gate stays shut;
\* the sleep after them is a long one.
MaxShortSleeps == 1

\* The ports of the range that programs other than the supervisor may hold,
\* or on which the bind test may fail.
ForeignPorts == {PoolLo}

----------------------------------------------------------------------------
(* Helpers.                                                                *)

Range(s) == {s[i] : i \in DOMAIN s}

Reverse(s) == [i \in 1..Len(s) |-> s[Len(s) + 1 - i]]

Min(a, b) == IF a < b THEN a ELSE b

\* str::starts_with
starts_with(text, prefix) ==
  Len(text) >= Len(prefix) /\ SubSeq(text, 1, Len(prefix)) = prefix

\* The map without keys.
EmptyMap == [k \in {} |-> 0]

\* The sequences that list every element of the finite set S once.
Perms(S) ==
  {q \in [1..Cardinality(S) -> S] : \A x \in S : \E i \in DOMAIN q : q[i] = x}

----------------------------------------------------------------------------
(* The targets a client can submit.  A target text is opaque here; Parse   *)
(* is serde_yaml::from_str followed by apply_secrets.                      *)

\* The address text "a.b.c.d:port" of a service is the sequence of its
\* numbers.
Svc_s == [name |-> "s", on |-> <<127, 0, 0, 5, 80>>]
Svc_t == [name |-> "t", on |-> <<127, 0, 0, 6, 80>>]
Svc_far == [name |-> "s", on |-> <<10, 0, 0, 5, 80>>]

Proc_v1 ==
  [name |-> "p", command |-> <<"srv">>, env |-> "v1", uid |-> "none",
   receives |-> <<"s">>, health |-> "s"]
Proc_v2 == [Proc_v1 EXCEPT !.env = "v2"]
Proc_two ==
  [name |-> "p", command |-> <<"srv">>, env |-> "v3", uid |-> "www",
   receives |-> <<"s", "t">>, health |-> "none"]

\* A process whose command is the empty list.
Proc_nocmd == [Proc_v1 EXCEPT !.command = <<>>, !.env = "v4"]

\* A process whose health check names a service it does not receive, and a
\* second process, sound, next to it.
Proc_stray == [Proc_v1 EXCEPT !.health = "t"]
Proc_q == [Proc_v1 EXCEPT !.name = "q", !.receives = <<"t">>, !.health = "t"]

EmptyTarget == [processes |-> <<>>, services |-> <<>>]
Target_v1 == [processes |-> <<Proc_v1>>, services |-> <<Svc_s>>]
Target_v2 == [processes |-> <<Proc_v2>>, services |-> <<Svc_s>>]
Target_two == [processes |-> <<Proc_two>>, services |-> <<Svc_s, Svc_t>>]
\* The service stays, its process is withdrawn.
Target_idle == [processes |-> <<>>, services |-> <<Svc_s>>]
Target_duo == [processes |-> <<Proc_stray, Proc_q>>, services |-> <<Svc_s, Svc_t>>]
Target_nocmd == [processes |-> <<Proc_nocmd>>, services |-> <<Svc_s>>]
Target_dupproc == [processes |-> <<Proc_v1, Proc_v2>>, services |-> <<Svc_s>>]
Target_dupsvc == [processes |-> <<Proc_v1>>, services |-> <<Svc_s, Svc_s>>]
Target_far == [processes |-> <<Proc_v1>>, services |-> <<Svc_far>>]

DefaultText == "none"
ValidTexts == {DefaultText, "v1", "v1b", "v2", "two", "nocmd", "idle",
               "duo"}
InvalidTexts == {"dupproc", "dupsvc", "far"}
Texts == ValidTexts \cup InvalidTexts \cup {"garbage"}

\* <<t>> when the text parses to the target t, <<>> when it does not parse.
Parse(text) ==
  CASE text = DefaultText -> <<EmptyTarget>>
    [] text = "v1" -> <<Target_v1>>
    [] text = "v1b" -> <<Target_v1>>
    [] text = "v2" -> <<Target_v2>>
    [] text = "two" -> <<Target_two>>
    [] text = "nocmd" -> <<Target_nocmd>>
    [] text = "idle" -> <<Target_idle>>
    [] text = "duo" -> <<Target_duo>>
    [] text = "dupproc" -> <<Target_dupproc>>
    [] text = "dupsvc" -> <<Target_dupsvc>>
    [] text = "far" -> <<Target_far>>
    [] OTHER -> <<>>

ServiceNames == {"s", "t"}
\* A fixed listing of the service names, to enumerate a HashMap's keys.
ServiceList == <<"s", "t">>

----------------------------------------------------------------------------
(* LogEvent.                                                               *)

Warning == [type |-> "Warning"]
Error == [type |-> "Error"]
CreateIpvsService(spec) == [type |-> "CreateIpvsService", spec |-> spec]
LaunchProcess(name, process_name, port_allocations) ==
  [type |-> "LaunchProcess", name |-> name, process_name |-> process_name,
   port_allocations |-> port_allocations]
StatusChange(name, status) ==
  [type |-> "StatusChange", name |-> name, status |-> status]
WeightChange(service, port, weight) ==
  [type |-> "WeightChange", service |-> service, port |-> port, weight |-> weight]

----------------------------------------------------------------------------
(* Port pool.                                                              *)

\* test_port: what the bind test of `port` answers, given what the rest of
\* the machine does to the ports (bind: port -> "Free" | "InUse" | "Fails").
test_port(port, bind) ==
  CASE bind[port] = "Free" -> "OkTrue"
    [] bind[port] = "InUse" -> "OkFalse"
    [] OTHER -> "Err"

\* allocate_port as it would be had a port that passes the bind test been
\* rotated to the back of the FIFO, like a port in use, instead of leaving it.
RECURSIVE allocate_loop_rotate(_, _, _, _, _)
allocate_loop_rotate(free, allocated, bind, events, fuel) ==
  IF free = <<>>
  THEN [res |-> "Err", port |-> 0, free |-> free, allocated |-> allocated,
        events |-> events]
  ELSE LET port == Head(free)
           rest == Tail(free)
           t == test_port(port, bind)
       IN CASE t = "Err" ->
                 [res |-> "Err", port |-> 0, free |-> rest,
                  allocated |-> allocated, events |-> events]
            [] t = "OkFalse" ->
                 IF fuel = 0
                 THEN [res |-> "Hang", port |-> 0, free |-> free,
                       allocated |-> allocated, events |-> events]
                 ELSE allocate_loop_rotate(Append(rest, port), allocated, bind,
                                           Append(events, Warning), fuel - 1)
            [] OTHER ->
                 IF port \in allocated
                 THEN [res |-> "Panic", port |-> port, free |-> rest,
                       allocated |-> allocated, events |-> events]
                 ELSE [res |-> "Ok", port |-> port, free |-> Append(rest, port),
                       allocated |-> allocated \cup {port}, events |-> events]

\* allocate_port.  res is "Ok" (port allocated), "Err" (exhaustion, or a bind
\* error), "Panic" (the assertion) or "Hang": every port left in the FIFO is
\* in use, so the loop pops and pushes back for ever.
RECURSIVE allocate_loop(_, _, _, _, _)
allocate_loop(free, allocated, bind, events, fuel) ==
  IF free = <<>>
  THEN [res |-> "Err", port |-> 0, free |-> free, allocated |-> allocated,
        events |-> events]
  ELSE LET port == Head(free)
           rest == Tail(free)
           t == test_port(port, bind)
       IN CASE t = "Err" ->
                 [res |-> "Err", port |-> 0, free |-> rest,
                  allocated |-> allocated, events |-> events]
            [] t = "OkFalse" ->
                 IF fuel = 0
                 THEN [res |-> "Hang", port |-> 0, free |-> free,
                       allocated |-> allocated, events |-> events]
                 ELSE allocate_loop(Append(rest, port), allocated, bind,
                                    Append(events, Warning), fuel - 1)
            [] OTHER ->
                 IF port \in allocated
                 THEN [res |-> "Panic", port |-> port, free |-> rest,
                       allocated |-> allocated, events |-> events]
                 ELSE [res |-> "Ok", port |-> port, free |-> rest,
                       allocated |-> allocated \cup {port}, events |-> events]

allocate_port(free, allocated, bind) ==
  allocate_loop(free, allocated, bind, <<>>, Len(free))

\* release_port as it would be without `allocated_ports.remove(&port)`.
release_port_keeps(free, allocated, port) ==
  IF port \notin allocated
  THEN [res |-> "Panic", free |-> free, allocated |-> allocated]
  ELSE [res |-> "Ok", free |-> <<port>> \o free, allocated |-> allocated]

\* release_port.  res is "Panic" when the assertion fails.
release_port(free, allocated, port) ==
  IF port \notin allocated
  THEN [res |-> "Panic", free |-> free, allocated |-> allocated]
  ELSE [res |-> "Ok", free |-> <<port>> \o free, allocated |-> allocated \ {port}]

\* GlobalState::new: the free FIFO holds the range in order, less the admin port.
InitialFree ==
  SelectSeq([i \in 1..PoolSize |-> PoolLo + i - 1], LAMBDA p : p # AdminPort)

----------------------------------------------------------------------------
(* Process launcher.                                                       *)

\* A HashMap<String, u16> under construction is a function on the service
\* names it holds.  MapPairs lists it in one of the orders an iteration may
\* take (rev picks between them); an entry keeps its map as that listing.
MapPairs(map, rev) ==
  LET keys == SelectSeq(ServiceList, LAMBDA s : s \in DOMAIN map)
      ord == IF rev THEN Reverse(keys) ELSE keys
  IN [i \in 1..Len(ord) |-> [service |-> ord[i], port |-> map[ord[i]]]]

PortsOf(entry) ==
  {entry.port_allocations[i].port : i \in DOMAIN entry.port_allocations}

\* port_allocations.get(service): <<>> when the key is missing.
PortFor(entry, service) ==
  LET hits == SelectSeq(entry.port_allocations, LAMBDA a : a.service = service)
  IN IF hits = <<>> THEN <<>> ELSE <<hits[1].port>>

\* The loop of lines 344-346: release every port of `pairs`, in order.
RECURSIVE release_all(_, _, _)
release_all(free, allocated, pairs) ==
  IF pairs = <<>>
  THEN [res |-> "Ok", free |-> free, allocated |-> allocated]
  ELSE LET r == release_port(free, allocated, Head(pairs).port)
       IN IF r.res = "Panic" THEN r
          ELSE release_all(r.free, r.allocated, Tail(pairs))

\* The loop of lines 336-352: one port per name of `receives`, from index k.
RECURSIVE launch_alloc(_, _, _, _, _, _, _, _)
launch_alloc(free, allocated, receives, k, map, events, bind, rev) ==
  IF k > Len(receives)
  THEN [res |-> "Ok", free |-> free, allocated |-> allocated, map |-> map,
        events |-> events]
  ELSE LET a == allocate_port(free, allocated, bind)
       IN CASE a.res = "Ok" ->
                 launch_alloc(a.free, a.allocated, receives, k + 1,
                              [s \in DOMAIN map \cup {receives[k]} |->
                                 IF s = receives[k] THEN a.port ELSE map[s]],
                              events \o a.events, bind, rev)
            [] a.res = "Err" ->
                 LET r == release_all(a.free, a.allocated, MapPairs(map, rev))
                 IN [res |-> IF r.res = "Panic" THEN "Panic" ELSE "Err",
                     free |-> r.free, allocated |-> r.allocated, map |-> map,
                     events |-> (events \o a.events) \o <<Error>>]
            [] OTHER ->
                 [res |-> a.res, free |-> a.free, allocated |-> a.allocated,
                  map |-> map, events |-> events \o a.events]

NoEntry == [status |-> "None"]

\* RunningProcessEntry::new.  The unique name is the value of COUNTER (the
\* random words and the pid add nothing to it).
\* The entry launch_process returns as it would be if a version were taken
\* to be up as soon as it is spawned.
NewEntry_running(ctr, port_allocations) ==
  [status |-> "Running", name |-> ctr, process |-> "running",
   port_allocations |-> port_allocations]

\* The entry launch_process returns (lines 374-379).
NewEntry(ctr, port_allocations) ==
  [status |-> "Starting", name |-> ctr, process |-> "running",
   port_allocations |-> port_allocations]

\* launch_process.  spawn is what the operating system answers: "Ok",
\* "UidErr" (to_uid fails; only asked when the spec names a uid) or "SpawnErr".
launch_process(free, allocated, process_spec, bind, rev, spawn, ctr) ==
  LET a == launch_alloc(free, allocated, process_spec.receives, 1, EmptyMap,
                        <<>>, bind, rev)
      out(res, entry, events) ==
        [res |-> res, free |-> a.free, allocated |-> a.allocated,
         entry |-> entry, events |-> events]
  IN CASE a.res # "Ok" -> out(a.res, NoEntry, a.events)
       [] process_spec.command = <<>> -> out("Panic", NoEntry, a.events)
       [] process_spec.uid # "none" /\ spawn = "UidErr" ->
            out("Err", NoEntry, a.events)
       [] spawn = "SpawnErr" -> out("Err", NoEntry, a.events)
       [] OTHER ->
            LET entry == NewEntry(ctr, MapPairs(a.map, rev))
            IN out("Ok", entry,
                   Append(a.events,
                          LaunchProcess(entry.name, process_spec.name,
                                        entry.port_allocations)))

----------------------------------------------------------------------------
(* Health prober.                                                          *)

\* health_check.  probe is what the HTTP GET answers: "OkTrue" (2xx),
\* "OkFalse" (another status, or connection refused) or "Err".
health_check(process_spec, entry, probe) ==
  IF process_spec.health = "none" THEN "OkTrue"
  ELSE IF PortFor(entry, process_spec.health) = <<>> THEN "Err"
  ELSE probe

----------------------------------------------------------------------------
(* Rate limiter.  Instants are only ever subtracted from a later now, so   *)
(* the map stores, for each key, the time elapsed since its instant; the   *)
(* elapsed time stops growing once it exceeds the key's interval.          *)

StartKey(name) == <<"start", name>>
HealthKey(name) == <<"health", name>>
IntervalOf(key) == IF key[1] = "start" THEN START_INTERVAL ELSE HEALTH_INTERVAL

\* map.entry(key).or_insert(now) as it would be if a new key were given an
\* instant further back than any interval.
rate_limit_entry_stale(map, key) ==
  IF key \in DOMAIN map THEN map
  ELSE [k \in DOMAIN map \cup {key} |->
          IF k = key THEN HEALTH_INTERVAL + 1 ELSE map[k]]

\* map.entry(key).or_insert(now)
rate_limit_entry(map, key) ==
  IF key \in DOMAIN map THEN map
  ELSE [k \in DOMAIN map \cup {key} |-> IF k = key THEN 0 ELSE map[k]]

\* The value rate_limit(key, duration) would return if the gate opened as
\* soon as the interval had passed.
rate_limit_at_interval(map, key, duration) ==
  rate_limit_entry(map, key)[key] >= duration

\* The value rate_limit(key, duration) returns.
rate_limit(map, key, duration) == rate_limit_entry(map, key)[key] > duration

\* The map rate_limit(key, duration) leaves.
rate_limit_map(map, key, duration) ==
  LET m == rate_limit_entry(map, key)
  IN IF m[key] > duration THEN [m EXCEPT ![key] = 0] ELSE m

\* `d` time units pass.
Elapse(map, d) ==
  [k \in DOMAIN map |-> Min(map[k] + d, IntervalOf(k) + 1)]

\* The keys a later pass can still ask for: "start:" of a Starting entry,
\* "health:" of a Running entry.  The map of the source keeps every key for
\* ever; names are unique, so the other keys are never read again and the
\* model forgets them.
LiveKeys(sets) ==
  UNION {{IF sets[n][k].entry.status = "Starting"
          THEN StartKey(sets[n][k].entry.name)
          ELSE HealthKey(sets[n][k].entry.name) :
            k \in {j \in DOMAIN sets[n] :
                     sets[n][j].entry.status \in {"Starting", "Running"}}} :
         n \in DOMAIN sets}

Forget(map, sets) == [k \in DOMAIN map \cap LiveKeys(sets) |-> map[k]]

----------------------------------------------------------------------------
(* IPVS adapter (module ipvs).  The kernel table maps the address of each  *)
(* virtual service to its real servers on 127.0.0.1: port -> weight.       *)

\* parse_host_and_port: <<[host, port]>>, or <<>> when the text is no
\* "host:port".
parse_host_and_port(on) ==
  IF Len(on) = 5 THEN <<[host |-> SubSeq(on, 1, 4), port |-> on[5]]>> ELSE <<>>

\* The key of a service in the kernel table.
Addr(service) == parse_host_and_port(service.on)[1]

ipvs_delete_service(table, service) ==
  [a \in DOMAIN table \ {Addr(service)} |-> table[a]]

ipvs_create_service(table, service) ==
  [a \in DOMAIN table \cup {Addr(service)} |->
     IF a = Addr(service) THEN EmptyMap ELSE table[a]]

\* set_loopback_weight on a virtual service that exists.
ipvs_set_loopback_weight(table, service, port, weight) ==
  [table EXCEPT ![Addr(service)] =
     [q \in DOMAIN @ \cup {port} |-> IF q = port THEN weight ELSE @[q]]]

\* Lines 497-516: the real servers of the loopback services of a snapshot,
\* by port.  LoopbackClash is the case in which the assertion of line 504 fails.
LoopbackServices(state) ==
  {a \in DOMAIN state : starts_with(a.host, SERVICE_IP_PREFIX)}

LoopbackClash(state) ==
  \E a, b \in LoopbackServices(state) :
    a # b /\ DOMAIN state[a] \cap DOMAIN state[b] # {}

LoopbackWeight(state, port) ==
  LET holders == {a \in LoopbackServices(state) : port \in DOMAIN state[a]}
  IN IF holders = {} THEN 0 ELSE state[CHOOSE a \in holders : TRUE][port]

----------------------------------------------------------------------------
(* validate_target.                                                        *)

Unique(items) ==
  \A i, j \in DOMAIN items : items[i].name = items[j].name => i = j

\* validate_target as it would be without check_unique!("services", ..).
validate_target_processes_only(t) ==
  IF ~Unique(t.processes) THEN "Duplicate name in processes"
  ELSE IF \E i \in DOMAIN t.services : parse_host_and_port(t.services[i].on) = <<>>
  THEN "Invalid address"
  ELSE IF \E i \in DOMAIN t.services :
            ~starts_with(parse_host_and_port(t.services[i].on)[1].host,
                         SERVICE_IP_PREFIX)
  THEN "Service has invalid IP"
  ELSE "Ok"

\* "Ok", or what the error says.
validate_target(t) ==
  IF ~Unique(t.processes) THEN "Duplicate name in processes"
  ELSE IF ~Unique(t.services) THEN "Duplicate name in services"
  ELSE IF \E i \in DOMAIN t.services : parse_host_and_port(t.services[i].on) = <<>>
  THEN "Invalid address"
  ELSE IF \E i \in DOMAIN t.services :
            ~starts_with(parse_host_and_port(t.services[i].on)[1].host,
                         SERVICE_IP_PREFIX)
  THEN "Service has invalid IP"
  ELSE "Ok"

----------------------------------------------------------------------------
(* State.                                                                  *)

NoPass == [order |-> <<>>, i |-> 0, result |-> "Ok", work |-> <<>>]

\* The target file found at start-up: none, or one that fails validation.
StoredTexts == {DefaultText, "dupsvc"}

\* env.texts: the target texts clients submit.  env.faults: the failures the
\* operating system, the IPVS adapter and the children may show:
\*   "ipvs"   an adapter call fails        "bind"   a bind test finds a port
\*   "spawn"  to_uid or spawn fails                 in use, or fails
\*   "probe"  a probe ends in a transport  "wait"   try_wait fails
\*            error                        "write"  the target file cannot be
\*   "exit"   a child exits without having          written
\*            been sent SIGTERM            "sick"   a health endpoint answers
\*                                                  an error status
Faults == {"ipvs", "bind", "spawn", "probe", "wait", "write", "exit", "sick"}

May(fault) == fault \in env.faults

MaxPasses == 3
NoTicks == [passes |-> 0, quiet |-> 0]

InitEnv(e) ==
  /\ env = e
  /\ target_text \in StoredTexts
  /\ target = IF validate_target(Parse(target_text)[1]) = "Ok"
              THEN Parse(target_text)[1]
              ELSE EmptyTarget
  /\ processed_services = {}
  /\ processes_by_name = EmptyMap
  /\ free_loopback_ports = InitialFree
  /\ allocated_ports = {}
  /\ last_ipvs_state = <<>>
  /\ rate_limiting = EmptyMap
  /\ counter = 0
  /\ log_events = <<>>
  /\ ipvs = EmptyMap
  /\ pc = "idle"
  /\ hk = NoPass
  /\ response = <<>>
  /\ ticks = NoTicks

Init == InitEnv([texts |-> Texts, faults |-> Faults, clock |-> FALSE])

\* The state lock as it would be if a request did not wait for it.
LockFree_not_awaited == TRUE

\* The state lock is held from the first line of a pass to its return.
LockFree == pc \in {"idle", "panicked"}

ProcessNames(t) == {t.processes[i].name : i \in DOMAIN t.processes}

\* specs.get(process_name): <<>> when the target has no such process.
TargetSpec(t, process_name) ==
  SelectSeq(t.processes, LAMBDA ps : ps.name = process_name)

\* target.services.iter().find(|service| service.name == *service_name)
FindService(t, service_name) ==
  SelectSeq(t.services, LAMBDA sv : sv.name = service_name)

Running(set) == {i \in DOMAIN set : set[i].entry.status = "Running"}

\* <<status>> of the entry called `name` in `sets`, <<>> when there is none.
StatusOf(sets, name) ==
  LET hits == {<<n, k>> \in UNION {{<<m, j>> : j \in DOMAIN sets[m]} : m \in DOMAIN sets} :
                 sets[n][k].entry.name = name}
  IN IF hits = {} THEN <<>>
     ELSE LET h == CHOOSE h \in hits : TRUE IN <<sets[h[1]][h[2]].entry.status>>

\* The step at hand gives some entry another status (update_status!).
StatusMoved ==
  \E n \in DOMAIN processes_by_name :
    \E k \in DOMAIN processes_by_name[n] :
      LET entry == processes_by_name[n][k].entry
          after == StatusOf(processes_by_name', entry.name)
      IN after # <<>> /\ after[1] # entry.status

\* The iterations of the loop of server_main (lines 751-760), counted when
\* env.clock says so and up to MaxPasses: `passes` are the passes begun since
\* the target last changed, `quiet` the passes that have returned since the
\* last pass in which an entry changed status (-1 during such a pass).
HkTicks ==
  ticks' = IF ~env.clock THEN ticks
           ELSE [passes |-> IF pc = "idle" THEN Min(ticks.passes + 1, MaxPasses)
                            ELSE ticks.passes,
                 quiet |-> IF StatusMoved THEN -1
                           ELSE IF pc = "return"
                           THEN Min(ticks.quiet + 1, MaxPasses)
                           ELSE ticks.quiet]

RequestTicks ==
  ticks' = IF env.clock /\ target' # target THEN NoTicks ELSE ticks

----------------------------------------------------------------------------
(* GlobalState::housekeeping, step by step.                                *)

\* How a pass ends: housekeeping returns `result` to the loop of server_main.
Return(result) ==
  /\ pc' = "return"
  /\ hk' = [hk EXCEPT !.result = result, !.work = <<>>]

\* Lines 416-436: take the lock, make sure every process of the target has a
\* process set, read the IPVS table.  order is the order in which this pass
\* iterates over processes_by_name.
HkBegin(order, snapshot_ok) ==
  /\ pc = "idle"
  /\ response' = <<>>
  /\ LET sets == [n \in DOMAIN processes_by_name \cup ProcessNames(target) |->
                    IF n \in DOMAIN processes_by_name THEN processes_by_name[n]
                    ELSE <<>>]
     IN /\ order \in Perms(DOMAIN sets)
        /\ processes_by_name' = sets
        /\ IF snapshot_ok
           THEN /\ last_ipvs_state' = <<ipvs>>
                /\ pc' = "services"
                /\ hk' = [order |-> order, i |-> 1, result |-> "Ok", work |-> <<>>]
           ELSE /\ last_ipvs_state' = last_ipvs_state
                /\ pc' = "return"
                /\ hk' = [order |-> order, i |-> 1, result |-> "Err", work |-> <<>>]
  /\ log_events' = <<>>
  /\ UNCHANGED <<target_text, target, processed_services, free_loopback_ports,
                 allocated_ports, rate_limiting, counter, ipvs, env>>
  /\ HkTicks

\* The loop of lines 440-457 as it would be if a service were marked
\* processed before its create_service was attempted.
RECURSIVE services_loop_marks_first(_, _, _, _, _, _)
services_loop_marks_first(services, k, processed, table, events, fail_at) ==
  IF k > Len(services)
  THEN [res |-> "Ok", processed |-> processed, table |-> table, events |-> events]
  ELSE LET service == services[k]
       IN IF service.name \in processed
          THEN services_loop_marks_first(services, k + 1, processed, table, events,
                                         fail_at)
          ELSE LET logged == Append(events, CreateIpvsService(service))
                   deleted == ipvs_delete_service(table, service)
               IN IF k = fail_at
                  THEN [res |-> "Err", processed |-> processed \cup {service.name},
                        table |-> deleted, events |-> logged]
                  ELSE services_loop_marks_first(services, k + 1,
                                                 processed \cup {service.name},
                                                 ipvs_create_service(deleted, service),
                                                 logged, fail_at)

\* Lines 440-457, from service k on.  fail_at is the index of the service
\* whose create_service fails (0: none does).
RECURSIVE services_loop(_, _, _, _, _, _)
services_loop(services, k, processed, table, events, fail_at) ==
  IF k > Len(services)
  THEN [res |-> "Ok", processed |-> processed, table |-> table, events |-> events]
  ELSE LET service == services[k]
       IN IF service.name \in processed
          THEN services_loop(services, k + 1, processed, table, events, fail_at)
          ELSE LET logged == Append(events, CreateIpvsService(service))
                   deleted == ipvs_delete_service(table, service)
               IN IF k = fail_at
                  THEN [res |-> "Err", processed |-> processed,
                        table |-> deleted, events |-> logged]
                  ELSE services_loop(services, k + 1,
                                     processed \cup {service.name},
                                     ipvs_create_service(deleted, service),
                                     logged, fail_at)

\* Lines 439-464: reset the services not yet processed, then map the process
\* names to their specs (the assertion of line 462 needs unique names).
HkServices(fail_at) ==
  /\ pc = "services"
  /\ response' = <<>>
  /\ fail_at \in 0..Len(target.services)
  /\ LET r == services_loop(target.services, 1, processed_services, ipvs, <<>>,
                            fail_at)
     IN /\ processed_services' = r.processed
        /\ ipvs' = r.table
        /\ log_events' = r.events
        /\ IF r.res = "Err" THEN Return("Err")
           ELSE IF ~Unique(target.processes)
           THEN pc' = "panicked" /\ hk' = NoPass
           ELSE /\ pc' = IF hk.order = <<>> THEN "retain" ELSE "launch"
                /\ hk' = hk
  /\ UNCHANGED <<target_text, target, processes_by_name, free_loopback_ports,
                 allocated_ports, last_ipvs_state, rate_limiting, counter, env>>
  /\ HkTicks

\* Lines 467-490, for the process set at position hk.i of the iteration.
HkLaunch(bind, rev, spawn) ==
  /\ pc = "launch"
  /\ response' = <<>>
  /\ LET process_name == hk.order[hk.i]
         process_set == processes_by_name[process_name]
         target_spec == TargetSpec(target, process_name)
         up_to_date ==
           \/ target_spec = <<>>
           \/ /\ process_set # <<>>
              /\ process_set[Len(process_set)].spec = target_spec[1]
         l == launch_process(free_loopback_ports, allocated_ports,
                             target_spec[1], bind, rev, spawn, counter)
         \* the next process set, or on to lines 497-516 and the status loop
         next == IF hk.i < Len(hk.order)
                 THEN pc' = "launch" /\ hk' = [hk EXCEPT !.i = @ + 1]
                 ELSE IF LoopbackClash(last_ipvs_state[1])
                 THEN pc' = "panicked" /\ hk' = NoPass
                 ELSE pc' = "health" /\ hk' = [hk EXCEPT !.i = 1]
     IN IF up_to_date
        THEN /\ next
             /\ log_events' = <<>>
             /\ UNCHANGED <<processes_by_name, free_loopback_ports,
                            allocated_ports, counter>>
        ELSE /\ free_loopback_ports' = l.free
             /\ allocated_ports' = l.allocated
             /\ CASE l.res = "Ok" ->
                       /\ processes_by_name' =
                            [processes_by_name EXCEPT ![process_name] =
                               Append(@, [spec |-> target_spec[1], entry |-> l.entry])]
                       /\ counter' = counter + 1
                       /\ log_events' = l.events
                       /\ next
                  [] l.res = "Err" ->
                       /\ log_events' = Append(l.events, Error)
                       /\ next
                       /\ UNCHANGED <<processes_by_name, counter>>
                  [] l.res = "Panic" ->
                       /\ log_events' = l.events
                       /\ pc' = "panicked" /\ hk' = NoPass
                       /\ UNCHANGED <<processes_by_name, counter>>
                  [] OTHER ->
                       /\ log_events' = l.events
                       /\ pc' = "hung" /\ hk' = hk
                       /\ UNCHANGED <<processes_by_name, counter>>
  /\ UNCHANGED <<target_text, target, processed_services, last_ipvs_state,
                 rate_limiting, ipvs, env>>
  /\ HkTicks

\* update_status! as it would be if an entry found unhealthy were sent back
\* to Starting, to be probed again.
update_status_retry(v, status) ==
  [v EXCEPT !.entry.status = IF status = "Unhealthy" THEN "Starting" ELSE status]

\* update_status!: the entry with its new status, and the event logged.
update_status(v, status) == [v EXCEPT !.entry.status = status]

\* Lines 541-549, from entry k on.  probes[k] is what a probe of entry k answers.
RECURSIVE health_loop(_, _, _, _, _)
health_loop(set, k, map, events, probes) ==
  IF k > Len(set)
  THEN [res |-> "Ok", set |-> set, map |-> map, events |-> events]
  ELSE LET v == set[k]
           key == HealthKey(v.entry.name)
       IN IF v.entry.status # "Running"
          THEN health_loop(set, k + 1, map, events, probes)
          ELSE IF ~rate_limit(map, key, HEALTH_INTERVAL)
          THEN health_loop(set, k + 1, rate_limit_map(map, key, HEALTH_INTERVAL),
                           events, probes)
          ELSE LET m == rate_limit_map(map, key, HEALTH_INTERVAL)
                   h == health_check(v.spec, v.entry, probes[k])
               IN CASE h = "Err" ->
                         [res |-> "Err", set |-> set, map |-> m, events |-> events]
                    [] h = "OkFalse" ->
                         health_loop([set EXCEPT ![k] = update_status(v, "Unhealthy")],
                                     k + 1, m,
                                     Append(events, StatusChange(v.entry.name, "Unhealthy")),
                                     probes)
                    [] OTHER -> health_loop(set, k + 1, m, events, probes)

ProbeResults == {"OkTrue", "OkFalse", "Err"}

\* Lines 540-549 for the process set at position hk.i.
HkHealth(probes) ==
  /\ pc = "health"
  /\ response' = <<>>
  /\ LET process_name == hk.order[hk.i]
         process_set == processes_by_name[process_name]
     IN /\ probes \in [DOMAIN process_set -> ProbeResults]
        /\ LET r == health_loop(process_set, 1, rate_limiting, <<>>, probes)
           IN /\ processes_by_name' = [processes_by_name EXCEPT ![process_name] = r.set]
              /\ rate_limiting' = r.map
              /\ log_events' = r.events
              /\ IF r.res = "Err" THEN Return("Err")
                 ELSE pc' = "start" /\ hk' = hk
  /\ UNCHANGED <<target_text, target, processed_services, free_loopback_ports,
                 allocated_ports, last_ipvs_state, counter, ipvs, env>>
  /\ HkTicks

\* Lines 550-559: the start-up probe of the most recent version.
HkStart(probe) ==
  /\ pc = "start"
  /\ response' = <<>>
  /\ probe \in ProbeResults
  /\ LET process_name == hk.order[hk.i]
         process_set == processes_by_name[process_name]
         v == process_set[Len(process_set)]
         key == StartKey(v.entry.name)
     IN IF process_set = <<>> \/ v.entry.status # "Starting"
        THEN /\ pc' = "sunset" /\ hk' = hk
             /\ log_events' = <<>>
             /\ UNCHANGED <<processes_by_name, rate_limiting>>
        ELSE /\ rate_limiting' = rate_limit_map(rate_limiting, key, START_INTERVAL)
             /\ IF ~rate_limit(rate_limiting, key, START_INTERVAL)
                THEN /\ pc' = "sunset" /\ hk' = hk
                     /\ log_events' = <<>>
                     /\ UNCHANGED processes_by_name
                ELSE LET h == health_check(v.spec, v.entry, probe)
                     IN CASE h = "Err" ->
                               /\ Return("Err")
                               /\ log_events' = <<>>
                               /\ UNCHANGED processes_by_name
                          [] h = "OkTrue" ->
                               /\ processes_by_name' =
                                    [processes_by_name EXCEPT
                                       ![process_name][Len(process_set)] =
                                         update_status(v, "Running")]
                               /\ log_events' = <<StatusChange(v.entry.name, "Running")>>
                               /\ pc' = "sunset" /\ hk' = hk
                          [] OTHER ->
                               /\ pc' = "sunset" /\ hk' = hk
                               /\ log_events' = <<>>
                               /\ UNCHANGED processes_by_name
  /\ UNCHANGED <<target_text, target, processed_services, free_loopback_ports,
                 allocated_ports, last_ipvs_state, counter, ipvs, env>>
  /\ HkTicks

\* The sunset loop as it would be if the flag were never raised.
RECURSIVE sunset_loop_flag_lost(_, _, _, _)
sunset_loop_flag_lost(set, k, have_newer_running_version, events) ==
  IF k < 1
  THEN [set |-> set, events |-> events]
  ELSE LET v == set[k]
       IN IF v.entry.status # "Running"
          THEN sunset_loop_flag_lost(set, k - 1, have_newer_running_version, events)
          ELSE IF have_newer_running_version
          THEN sunset_loop_flag_lost(
                 [set EXCEPT ![k] = [update_status(v, "Sunsetting") EXCEPT
                                       !.entry.process = "signalled"]],
                 k - 1, have_newer_running_version,
                 Append(events, StatusChange(v.entry.name, "Sunsetting")))
          ELSE sunset_loop_flag_lost(set, k - 1, have_newer_running_version, events)

\* The sunset loop as it would be without `.rev()`: from the oldest entry j
\* up to entry k.
RECURSIVE sunset_from(_, _, _, _, _)
sunset_from(set, j, k, have_newer_running_version, events) ==
  IF j > k
  THEN [set |-> set, events |-> events]
  ELSE LET v == set[j]
       IN IF v.entry.status # "Running"
          THEN sunset_from(set, j + 1, k, have_newer_running_version, events)
          ELSE IF have_newer_running_version
          THEN sunset_from([set EXCEPT ![j] =
                              [update_status(v, "Sunsetting") EXCEPT
                                 !.entry.process = "signalled"]],
                           j + 1, k, TRUE,
                           Append(events, StatusChange(v.entry.name, "Sunsetting")))
          ELSE sunset_from(set, j + 1, k, TRUE, events)

sunset_loop_from_oldest(set, k, have_newer_running_version, events) ==
  sunset_from(set, 1, k, have_newer_running_version, events)

\* Lines 560-578, from entry k down to the oldest: every Running entry below
\* a Running entry becomes Sunsetting and its child is sent SIGTERM.
RECURSIVE sunset_loop(_, _, _, _)
sunset_loop(set, k, have_newer_running_version, events) ==
  IF k < 1
  THEN [set |-> set, events |-> events]
  ELSE LET v == set[k]
       IN IF v.entry.status # "Running"
          THEN sunset_loop(set, k - 1, have_newer_running_version, events)
          ELSE IF have_newer_running_version
          THEN sunset_loop([set EXCEPT ![k] =
                              [update_status(v, "Sunsetting") EXCEPT
                                 !.entry.process = "signalled"]],
                           k - 1, TRUE,
                           Append(events, StatusChange(v.entry.name, "Sunsetting")))
          ELSE sunset_loop(set, k - 1, TRUE, events)

HkSunset ==
  /\ pc = "sunset"
  /\ response' = <<>>
  /\ LET process_name == hk.order[hk.i]
         r == sunset_loop(processes_by_name[process_name],
                          Len(processes_by_name[process_name]), FALSE, <<>>)
     IN /\ processes_by_name' = [processes_by_name EXCEPT ![process_name] = r.set]
        /\ log_events' = r.events
  /\ pc' = "reap"
  /\ UNCHANGED <<target_text, target, processed_services, free_loopback_ports,
                 allocated_ports, last_ipvs_state, rate_limiting, counter, ipvs,
                 hk, env>>
  /\ HkTicks

\* Lines 579-589, from entry k on.  exits holds the entries whose child has
\* exited by now; err_at is the entry whose try_wait fails (0: none does).
RECURSIVE reap_loop(_, _, _, _, _)
reap_loop(set, k, events, exits, err_at) ==
  IF k > Len(set)
  THEN [res |-> "Ok", set |-> set, events |-> events]
  ELSE LET v == set[k]
       IN IF k = err_at
          THEN [res |-> "Err", set |-> set, events |-> events]
          ELSE IF k \in exits \/ v.entry.status = "Exited"
          THEN reap_loop([set EXCEPT ![k] = update_status(v, "Exited")], k + 1,
                         Append(events, StatusChange(v.entry.name, "Exited")),
                         exits, err_at)
          ELSE reap_loop(set, k + 1, events, exits, err_at)

HkReap(exits, err_at) ==
  /\ pc = "reap"
  /\ response' = <<>>
  /\ LET process_name == hk.order[hk.i]
         process_set == processes_by_name[process_name]
     IN /\ exits \in SUBSET DOMAIN process_set
        /\ err_at \in 0..Len(process_set)
        /\ LET r == reap_loop(process_set, 1, <<>>, exits, err_at)
           IN /\ processes_by_name' = [processes_by_name EXCEPT ![process_name] = r.set]
              /\ log_events' = r.events
              /\ IF r.res = "Err" THEN Return("Err")
                 ELSE IF hk.i < Len(hk.order)
                 THEN pc' = "health" /\ hk' = [hk EXCEPT !.i = @ + 1]
                 ELSE pc' = "retain" /\ hk' = hk
  /\ UNCHANGED <<target_text, target, processed_services, free_loopback_ports,
                 allocated_ports, last_ipvs_state, rate_limiting, counter, ipvs, env>>
  /\ HkTicks

\* Line 596: running_versions.retain(..).
retain(set) == SelectSeq(set, LAMBDA v : v.entry.status # "Exited")

\* The calls the weight pass (lines 600-626) has to go through, in its order:
\* process sets in the order of this pass, entries from the oldest, ports in
\* the order of the entry's map.
RECURSIVE WeightWork(_, _, _, _, _)
WeightWork(sets, order, i, k, a) ==
  IF i > Len(order) THEN <<>>
  ELSE IF k > Len(sets[order[i]]) THEN WeightWork(sets, order, i + 1, 1, 1)
  ELSE IF a > Len(sets[order[i]][k].entry.port_allocations)
  THEN WeightWork(sets, order, i, k + 1, 1)
  ELSE <<[name |-> order[i], k |-> k, a |-> a]>>
       \o WeightWork(sets, order, i, k, a + 1)

\* Lines 592-597: drop the entries that have exited.
HkRetain ==
  /\ pc = "retain"
  /\ response' = <<>>
  /\ LET sets == [n \in DOMAIN processes_by_name |-> retain(processes_by_name[n])]
         work == WeightWork(sets, hk.order, 1, 1, 1)
     IN /\ processes_by_name' = sets
        /\ IF work = <<>> THEN Return("Ok")
           ELSE pc' = "weight" /\ hk' = [hk EXCEPT !.work = work]
  /\ log_events' = <<>>
  /\ UNCHANGED <<target_text, target, processed_services, free_loopback_ports,
                 allocated_ports, last_ipvs_state, rate_limiting, counter, ipvs, env>>
  /\ HkTicks

\* The target weight as it would be if traffic went to the entries that are
\* not Running.
TargetWeight_inverted(entry) == IF entry.status = "Running" THEN 0 ELSE 1

\* Lines 601-604.
TargetWeight(entry) == IF entry.status = "Running" THEN 1 ELSE 0

\* Lines 602-624 for one port of one entry: the next of hk.work.  call_ok is
\* whether set_loopback_weight succeeds, should it be called.
HkWeight(call_ok) ==
  /\ pc = "weight"
  /\ response' = <<>>
  /\ LET item == Head(hk.work)
         entry == processes_by_name[item.name][item.k].entry
         alloc == entry.port_allocations[item.a]
         found == FindService(target, alloc.service)
         current_weight == LoopbackWeight(last_ipvs_state[1], alloc.port)
         target_weight == TargetWeight(entry)
         next == IF Tail(hk.work) = <<>> THEN Return("Ok")
                 ELSE pc' = "weight" /\ hk' = [hk EXCEPT !.work = Tail(@)]
     IN IF found = <<>>
        THEN /\ Return("Err")
             /\ log_events' = <<>>
             /\ ipvs' = ipvs
        ELSE IF current_weight = target_weight
        THEN /\ next
             /\ log_events' = <<>>
             /\ ipvs' = ipvs
        ELSE /\ log_events' = <<WeightChange(found[1].name, alloc.port, target_weight)>>
             /\ IF call_ok /\ Addr(found[1]) \in DOMAIN ipvs
                THEN /\ ipvs' = ipvs_set_loopback_weight(ipvs, found[1], alloc.port,
                                                         target_weight)
                     /\ next
                ELSE /\ ipvs' = ipvs
                     /\ Return("Err")
  /\ UNCHANGED <<target_text, target, processed_services, processes_by_name,
                 free_loopback_ports, allocated_ports, last_ipvs_state,
                 rate_limiting, counter, env>>
  /\ HkTicks

\* server_main, lines 753-758: log the error of a failed pass, then sleep.
\* d is the time from this pass's rate_limit calls to the next pass's.
HkReturn(d) ==
  /\ pc = "return"
  /\ response' = <<>>
  /\ d \in Delays
  /\ log_events' = IF hk.result = "Err" THEN <<Error>> ELSE <<>>
  /\ rate_limiting' = Elapse(Forget(rate_limiting, processes_by_name), d)
  /\ \A k \in DOMAIN rate_limiting' :
       \/ rate_limiting'[k] > IntervalOf(k)
       \/ rate_limiting'[k] <= MaxShortSleeps * HOUSEKEEPING_INTERVAL
  /\ pc' = "idle"
  /\ hk' = NoPass
  /\ UNCHANGED <<target_text, target, processed_services, processes_by_name,
                 free_loopback_ports, allocated_ports, last_ipvs_state, counter,
                 ipvs, env>>
  /\ HkTicks

----------------------------------------------------------------------------
(* GlobalState::handle_rest_request.  A request that needs the state lock  *)
(* is served while the lock is free.  Ping needs no lock and reads         *)
(* nothing: it is drawn between passes only.                               *)

Pong == [type |-> "Pong"]
Success(message) == [type |-> "Success", message |-> message]
ErrorResponse(message) == [type |-> "Error", message |-> message]

Ping ==
  /\ LockFree
  /\ response' = <<Pong>>
  /\ log_events' = <<>>
  /\ UNCHANGED <<synced, rate_limiting, counter, ipvs, pc, hk, env>>
  /\ RequestTicks

GetTarget ==
  /\ LockFree
  /\ response' = <<[type |-> "Target", target |-> target_text]>>
  /\ log_events' = <<>>
  /\ UNCHANGED <<synced, rate_limiting, counter, ipvs, pc, hk, env>>
  /\ RequestTicks

\* Lines 672-674 for each text: "Ok", or the error of from_str ("parse") or
\* of validate_target.
TextVerdict ==
  [text \in Texts |->
     IF Parse(text) = <<>> THEN "parse" ELSE validate_target(Parse(text)[1])]

\* Lines 672-675: what stops a SetTarget before it takes the lock ("Ok":
\* nothing does).  write_ok is whether the target file can be written.
SetTargetError(text, write_ok) ==
  IF TextVerdict[text] # "Ok" THEN TextVerdict[text]
  ELSE IF ~write_ok THEN "write"
  ELSE "Ok"

\* Line 677 as it would be if the texts were compared, not the targets.
changed_text(text) == target_text # text

\* Line 677.
changed(text) == target # Parse(text)[1]

\* Lines 669-689.
SetTarget(text, write_ok) ==
  /\ LockFree
  /\ log_events' = <<>>
  /\ IF SetTargetError(text, write_ok) # "Ok"
     THEN /\ response' = <<ErrorResponse(SetTargetError(text, write_ok))>>
          /\ UNCHANGED <<target_text, target>>
     ELSE /\ target_text' = text
          /\ target' = Parse(text)[1]
          /\ response' = <<Success(IF changed(text) THEN "Target updated"
                                   ELSE "(no changes made)")>>
  /\ UNCHANGED <<processed_services, processes_by_name, free_loopback_ports,
                 allocated_ports, last_ipvs_state, rate_limiting, counter, ipvs,
                 pc, hk, env>>
  /\ RequestTicks

Status ==
  /\ LockFree
  /\ response' =
       <<[type |-> "Status",
          status |-> [n \in DOMAIN processes_by_name |->
                        [k \in DOMAIN processes_by_name[n] |->
                           <<processes_by_name[n][k].entry.name,
                             processes_by_name[n][k].entry.status>>]],
          ipvs_state |-> last_ipvs_state]>>
  /\ log_events' = <<>>
  /\ UNCHANGED <<synced, rate_limiting, counter, ipvs, pc, hk, env>>
  /\ RequestTicks

----------------------------------------------------------------------------

SpawnResults == {"Ok", "UidErr", "SpawnErr"}
BindResults == {"Free", "InUse", "Fails"}

\* The answers the surroundings may give under env.  A choice that the step
\* at hand never looks at is fixed, so that it is not drawn in vain.
Oks(fault) == IF May(fault) THEN BOOLEAN ELSE {TRUE}

CurrentName == hk.order[hk.i]
CurrentSet == processes_by_name[CurrentName]

\* The launch step at hand has a version to launch (lines 470-476).
LaunchDue ==
  /\ pc = "launch"
  /\ TargetSpec(target, CurrentName) # <<>>
  /\ \/ CurrentSet = <<>>
     \/ CurrentSet[Len(CurrentSet)].spec # TargetSpec(target, CurrentName)[1]

Binds ==
  {b \in [PoolRange -> BindResults] :
     \A q \in PoolRange :
       b[q] # "Free" => LaunchDue /\ May("bind") /\ q \in ForeignPorts}

Revs ==
  IF LaunchDue /\ Len(TargetSpec(target, CurrentName)[1].receives) > 1
  THEN BOOLEAN ELSE {FALSE}

Spawns ==
  IF LaunchDue /\ May("spawn")
  THEN IF TargetSpec(target, CurrentName)[1].uid = "none"
       THEN {"Ok", "SpawnErr"} ELSE SpawnResults
  ELSE {"Ok"}

Probes ==
  {"OkTrue"} \cup (IF May("sick") THEN {"OkFalse"} ELSE {})
             \cup (IF May("probe") THEN {"Err"} ELSE {})

\* The probes of the health step at hand: one answer for each Running entry
\* whose gate is open.
HealthProbes ==
  IF pc # "health" THEN {}
  ELSE {pr \in [DOMAIN CurrentSet -> Probes] :
          \A k \in DOMAIN CurrentSet :
            pr[k] # "OkTrue" =>
              /\ CurrentSet[k].entry.status = "Running"
              /\ rate_limit(rate_limiting, HealthKey(CurrentSet[k].entry.name),
                            HEALTH_INTERVAL)}

StartProbes ==
  IF /\ pc = "start"
     /\ CurrentSet # <<>>
     /\ CurrentSet[Len(CurrentSet)].entry.status = "Starting"
     /\ rate_limit(rate_limiting, StartKey(CurrentSet[Len(CurrentSet)].entry.name),
                   START_INTERVAL)
  THEN Probes ELSE {"OkTrue"}

\* The entries of the process set under the reap step whose child may be
\* found to have exited.
MayExit ==
  IF pc # "reap" THEN {}
  ELSE {k \in DOMAIN CurrentSet :
          /\ CurrentSet[k].entry.status # "Exited"
          /\ May("exit") \/ CurrentSet[k].entry.process = "signalled"}

WaitErrs ==
  IF pc = "reap" /\ May("wait") THEN 0..Len(CurrentSet) ELSE {0}

Housekeeping ==
  \/ \E order \in Perms(DOMAIN processes_by_name \cup ProcessNames(target)),
        snapshot_ok \in Oks("ipvs") : HkBegin(order, snapshot_ok)
  \/ \E fail_at \in 0..(IF May("ipvs") THEN Len(target.services) ELSE 0) :
       HkServices(fail_at)
  \/ \E bind \in Binds, rev \in Revs, spawn \in Spawns :
       HkLaunch(bind, rev, spawn)
  \/ \E probes \in HealthProbes : HkHealth(probes)
  \/ \E probe \in StartProbes : HkStart(probe)
  \/ HkSunset
  \/ \E exits \in SUBSET MayExit, err_at \in WaitErrs : HkReap(exits, err_at)
  \/ HkRetain
  \/ \E call_ok \in Oks("ipvs") : HkWeight(call_ok)
  \/ \E d \in Delays : HkReturn(d)

Requests ==
  \/ Ping
  \/ GetTarget
  \/ \E text \in env.texts, write_ok \in Oks("write") : SetTarget(text, write_ok)
  \/ Status

Next == Housekeeping \/ Requests

Spec == Init /\ [][Next]_vars

\* Calm surroundings: no call fails and a child exits only once it has been
\* sent SIGTERM; a health endpoint may answer an error status.  The target is rolled between two versions of a process.
EnvCalm == [texts |-> {"v1", "v2"}, faults |-> {"sick"}, clock |-> FALSE]
SpecCalm == InitEnv(EnvCalm) /\ [][Next]_vars

\* A rollout between versions while children, probes, try_wait and the
\* IPVS adapter may fail.
EnvRollout == [texts |-> {"v1", "v2"},
               faults |-> {"exit", "probe", "sick", "wait", "ipvs"},
               clock |-> FALSE]
SpecRollout == InitEnv(EnvRollout) /\ [][Next]_vars

\* The port pool under pressure: versions of one port, a version of two
\* ports, ports in use, binds and spawns that fail.
EnvPool == [texts |-> {"v1", "v2", "two"},
            faults |-> {"bind", "spawn", "sick"}, clock |-> FALSE]
SpecPool == InitEnv(EnvPool) /\ [][Next]_vars

\* The texts a client may send, acceptable or not, for a process of one
\* port; a target file that may fail to be written.
EnvTarget == [texts |-> Texts \ {DefaultText, "two", "nocmd", "idle", "duo"},
              faults |-> {"write", "sick"}, clock |-> FALSE]
SpecTarget == InitEnv(EnvTarget) /\ [][Next]_vars

\* A client submits a process whose command is empty; nothing else fails.
EnvNoCommand == [texts |-> {"v1", "nocmd"}, faults |-> {}, clock |-> FALSE]
SpecNoCommand == InitEnv(EnvNoCommand) /\ [][Next]_vars

\* Scenario S1: from the empty state a client submits one service and one
\* process that receives it; nothing fails, the health endpoint answers 200,
\* and the passes are counted.
EnvS1 == [texts |-> {"v1"}, faults |-> {}, clock |-> TRUE]
SpecS1 == InitEnv(EnvS1) /\ [][Next]_vars

\* A steady run: a client submits a process and its service, or withdraws
\* both; no call fails, every probe answers 200, a child exits only once it
\* has been sent SIGTERM, and the passes are counted.
EnvSteady == [texts |-> {"v1", DefaultText}, faults |-> {}, clock |-> TRUE]
SpecSteady == InitEnv(EnvSteady) /\ [][Next]_vars

\* A rollout in which nothing fails, every probe answers 200 and a child
\* exits only once it has been sent SIGTERM.  The loop of server_main (lines
\* 751-760) never ends, so a step of housekeeping that can be taken is
\* eventually taken.
EnvQuiet == [texts |-> {"v1", "v2"}, faults |-> {}, clock |-> FALSE]
SpecQuietFair == InitEnv(EnvQuiet) /\ [][Next]_vars /\ WF_vars(Housekeeping)

\* A process is rolled between two versions and withdrawn from the target
\* while its service stays; a probe may answer an error status and a child
\* may exit by itself.
EnvRemoval == [texts |-> {"v1", "v2", "idle"}, faults |-> {"sick", "exit"},
               clock |-> FALSE]
SpecRemoval == InitEnv(EnvRemoval) /\ [][Next]_vars

\* Two processes, one of which can never be probed; nothing else fails, the
\* children stay alive and the sound process answers 200.  The loop of
\* server_main never ends.
EnvDuo == [texts |-> {"duo"}, faults |-> {}, clock |-> FALSE]
SpecDuoFair == InitEnv(EnvDuo) /\ [][Next]_vars /\ WF_vars(Housekeeping)

----------------------------------------------------------------------------
(* Properties.                                                             *)

\* Every entry of every process set, as <<process name, index>>.
Entries ==
  UNION {{<<n, k>> : k \in DOMAIN processes_by_name[n]} :
           n \in DOMAIN processes_by_name}

EntryAt(ni) == processes_by_name[ni[1]][ni[2]].entry

HeldPorts == UNION {PortsOf(EntryAt(ni)) : ni \in Entries}

Logged(type) == \E i \in DOMAIN log_events : log_events[i].type = type

\* C1: whenever a housekeeping pass has returned, with Ok or with an error,
\* every process set holds at most one entry whose status is Running.
C1_AtMostOneRunning ==
  pc \in {"return", "idle"} =>
    \A n \in DOMAIN processes_by_name :
      Cardinality(Running(processes_by_name[n])) <= 1

\* A pass returns an error after it has sunset an older Running version
\* below the version it has just promoted.
C1_Witness ==
  /\ pc = "return" /\ hk.result = "Err"
  /\ \E n \in DOMAIN processes_by_name :
       \E i, j \in DOMAIN processes_by_name[n] :
         /\ i < j
         /\ processes_by_name[n][i].entry.status = "Sunsetting"
         /\ processes_by_name[n][j].entry.status = "Running"

Served(on) ==
  on \in DOMAIN ipvs /\ \E q \in DOMAIN ipvs[on] : ipvs[on][q] > 0

\* C3: while a process is rolled from a Running version to a new version that
\* has turned Running (the old one Sunsetting below it), every service the
\* new version receives has, between any two adapter calls, at least one real
\* server at nonzero weight: the old weight is not taken to 0 before the new
\* weight is 1.
C3_ZeroDowntime ==
  \A ni \in Entries :
    (/\ EntryAt(ni).status = "Running"
     /\ \E i \in 1..(ni[2] - 1) :
          processes_by_name[ni[1]][i].entry.status = "Sunsetting")
    => \A a \in Range(EntryAt(ni).port_allocations) :
         \A sv \in Range(FindService(target, a.service)) : Served(Addr(sv))

\* C4: at every time, a port is in allocated_ports exactly if the port map of
\* some entry now in a process set holds it.
C4_AllocatedIffHeld == allocated_ports = HeldPorts

\* C5: no port is in free_loopback_ports and in allocated_ports at once.
C5_FreeAllocatedDisjoint == Range(free_loopback_ports) \cap allocated_ports = {}

\* A launch has failed for want of a second port and has released the port
\* it had taken, while an older version holds the other port.
C5_Witness ==
  /\ Len(log_events) = 2
  /\ \A i \in DOMAIN log_events : log_events[i] = Error
  /\ allocated_ports = {PoolLo}
  /\ free_loopback_ports = <<PoolLo + 1>>
  /\ HeldPorts = {PoolLo}

\* C6: no assertion of the pool ever fails (allocate_port never returns a
\* port that is in allocated_ports), no port is held by two entries, and no
\* entry holds a port for two of its services.
C6_NoDoubleAllocation ==
  /\ pc # "panicked"
  /\ \A ni, mj \in Entries :
       ni # mj => PortsOf(EntryAt(ni)) \cap PortsOf(EntryAt(mj)) = {}
  /\ \A ni \in Entries :
       \A i, j \in DOMAIN EntryAt(ni).port_allocations :
         EntryAt(ni).port_allocations[i].port = EntryAt(ni).port_allocations[j].port
           => i = j

\* A version has just been launched on the port that allocate_port had
\* skipped, as in use, for the older version next to it.
C6_Witness ==
  /\ Logged("LaunchProcess")
  /\ \E ni, mj \in Entries :
       /\ ni[1] = mj[1] /\ ni[2] < mj[2]
       /\ PortsOf(EntryAt(ni)) = {PoolLo + 1}
       /\ PortsOf(EntryAt(mj)) = {PoolLo}

\* C7: a launch that returns an error leaves allocated_ports as it was
\* before the call and logs no LaunchProcess event.
C7_FailedLaunchKeepsPool ==
  [][(/\ pc = "launch"
      /\ pc' \notin {"panicked", "hung"}
      /\ log_events' # <<>>
      /\ log_events'[Len(log_events')] = Error)
     => /\ allocated_ports' = allocated_ports
        /\ \A i \in DOMAIN log_events' : log_events'[i].type # "LaunchProcess"]_vars

\* What C8 calls a target that cannot be taken: its text does not parse, two
\* of its processes or two of its services share a name, or a service sits on
\* an address outside 127.0.0.x.
C8_Unacceptable(text) ==
  \/ Parse(text) = <<>>
  \/ LET t == Parse(text)[1]
     IN \/ \E i, j \in DOMAIN t.processes :
             i # j /\ t.processes[i].name = t.processes[j].name
        \/ \E i, j \in DOMAIN t.services :
             i # j /\ t.services[i].name = t.services[j].name
        \/ \E i \in DOMAIN t.services :
             SubSeq(t.services[i].on, 1, 3) # <<127, 0, 0>>

C8_UnacceptableTexts == {text \in Texts : C8_Unacceptable(text)}

\* C8: a SetTarget whose text is unacceptable, or whose target file cannot
\* be written, is answered with an Error and changes neither the installed
\* target, nor the target text, nor a process set, nor the port pool.
C8_RejectedSetTargetChangesNothing ==
  [][\A text \in env.texts, write_ok \in BOOLEAN :
       ((~write_ok \/ text \in C8_UnacceptableTexts) /\ SetTarget(text, write_ok))
       => /\ response'[1].type = "Error"
          /\ UNCHANGED <<target_text, target, processes_by_name,
                         free_loopback_ports, allocated_ports>>]_vars

\* A target with a duplicate service name has just been refused while a
\* version of the installed target runs.
C8_Witness ==
  /\ response = <<ErrorResponse("Duplicate name in services")>>
  /\ target = Target_v1
  /\ target_text \in {"v1", "v1b"}
  /\ \E ni \in Entries : EntryAt(ni).status = "Running"

\* The next pass would launch a version of process n (lines 470-476).
NeedsLaunch(n) ==
  /\ TargetSpec(target, n) # <<>>
  /\ \/ n \notin DOMAIN processes_by_name
     \/ processes_by_name[n] = <<>>
     \/ processes_by_name[n][Len(processes_by_name[n])].spec
          # TargetSpec(target, n)[1]

\* C9: a SetTarget whose text parses to the installed target (and whose file
\* is written) answers "(no changes made)", leaves the installed target and
\* the process sets as they are, and makes no process due for a launch that
\* was not due before.
C9_EqualTargetIsNoChange ==
  [][\A text \in env.texts :
       (Parse(text) = <<target>> /\ SetTarget(text, TRUE))
       => /\ response' = <<Success("(no changes made)")>>
          /\ UNCHANGED <<target, processes_by_name, free_loopback_ports,
                         allocated_ports, processed_services, ipvs>>
          /\ \A n \in ProcessNames(target) : NeedsLaunch(n)' = NeedsLaunch(n)]_vars

\* The installed target has just been submitted again under another text
\* while its version runs.
C9_Witness ==
  /\ response = <<Success("(no changes made)")>>
  /\ target_text = "v1b"
  /\ target = Target_v1
  /\ \E ni \in Entries : EntryAt(ni).status = "Running" /\ ~NeedsLaunch(ni[1])

\* C10: when an entry leaves its process set, none of its ports is a real
\* server of nonzero weight any more: weight 0 has been requested for each
\* of them before the removal.
C10_ZeroWeightBeforeRemoval ==
  [][\A ni \in Entries :
       (\A n \in DOMAIN processes_by_name' :
          \A k \in DOMAIN processes_by_name'[n] :
            processes_by_name'[n][k].entry.name # EntryAt(ni).name)
       => \A q \in PortsOf(EntryAt(ni)) : LoopbackWeight(ipvs, q) = 0]_vars

\* The status an entry named `name` has in the sets `sets` (<<>>: no such
\* entry).
\* C11: the StatusChange events a step logs for an entry are exactly one
\* event with the new status if the step changed the entry's status, and
\* none if it did not; so an entry is logged as Sunsetting, or as Exited, at
\* most once, also across passes that abort with an error.
C11_OneEventPerStatusChange ==
  [][\A ni \in Entries :
       LET name == EntryAt(ni).name
           before == EntryAt(ni).status
           after == StatusOf(processes_by_name', name)
           events == SelectSeq(log_events',
                               LAMBDA e : e.type = "StatusChange" /\ e.name = name)
       IN IF after # <<>> /\ after[1] # before
          THEN events = <<StatusChange(name, after[1])>>
          ELSE events = <<>>]_vars

\* C15: when a pass has returned, with Ok or with an error, no process set
\* holds an entry whose status is Exited.
C15_NoExitedAfterReturn ==
  pc \in {"return", "idle"} => \A ni \in Entries : EntryAt(ni).status # "Exited"

\* C12: the housekeeping task never stops: no pass ends in a panic (a failed
\* assertion, an index out of range) or never returns, whatever target
\* validate_target has accepted.
C12_HousekeepingNeverStops == pc \notin {"panicked", "hung"}

\* C13: scenario S1.  When the first pass after the target was set returns,
\* the set of p holds one entry, Starting, whose start gate has been
\* initialised, the virtual service exists and no weight has been requested;
\* when the second pass returns, the set holds that one entry with status
\* Running on port 20000 and weight 1 has been set for that port.
C13_S1 ==
  (target = Target_v1 /\ pc = "return" /\ ticks.passes \in {1, 2}) =>
    /\ hk.result = "Ok"
    /\ Len(processes_by_name["p"]) = 1
    /\ LET entry == processes_by_name["p"][1].entry
       IN /\ PortFor(entry, "s") = <<PoolLo>>
          /\ Addr(Svc_s) \in DOMAIN ipvs
          /\ IF ticks.passes = 1
             THEN /\ entry.status = "Starting"
                  /\ StartKey(entry.name) \in DOMAIN rate_limiting
                  /\ PoolLo \notin DOMAIN ipvs[Addr(Svc_s)]
             ELSE /\ entry.status = "Running"
                  /\ ipvs[Addr(Svc_s)][PoolLo] = 1

C13_Witness ==
  /\ target = Target_v1 /\ pc = "return" /\ ticks.passes = 2
  /\ processes_by_name["p"][1].entry.status = "Running"
  /\ LoopbackWeight(ipvs, PoolLo) = 1

\* C14: once two passes have returned since the target last changed and
\* since the last pass in which an entry changed status, a step of
\* housekeeping that finds no child exited changes no status, launches
\* nothing, logs no event and leaves the IPVS table alone.
C14_FixedPointAfterTwoPasses ==
  [][(/\ ticks.quiet >= 2
      /\ pc # "idle" \/ pc' # "idle"
      /\ \A ni \in Entries :
           StatusOf(processes_by_name', EntryAt(ni).name) # <<"Exited">>)
     => /\ ~StatusMoved
        /\ counter' = counter
        /\ log_events' = <<>>
        /\ ipvs' = ipvs]_vars

\* C16: while a pass is in progress no request is answered and the target
\* and its text stay what they were when the pass began; a request is
\* answered, and the target replaced, only between two passes.
C16_RequestsBetweenPasses ==
  [][/\ pc # "idle" => /\ response' = <<>>
                        /\ target' = target
                        /\ target_text' = target_text
     /\ response' # <<>> => /\ pc = "idle" /\ pc' = "idle"
                            /\ hk = NoPass /\ hk' = NoPass
                            /\ processes_by_name' = processes_by_name
                            /\ free_loopback_ports' = free_loopback_ports
                            /\ allocated_ports' = allocated_ports
                            /\ last_ipvs_state' = last_ipvs_state]_vars

\* A SetTarget that replaced the target of a supervisor with a live entry
\* was answered between two passes.
C16_Witness ==
  /\ pc = "idle"
  /\ response = <<Success("Target updated")>>
  /\ Entries # {}
  /\ target = Target_v2

\* ProcessStatus as a state machine: the moves the specification allows.
AllowedMoves ==
  {<<"Starting", "Running">>, <<"Running", "Unhealthy">>,
   <<"Running", "Sunsetting">>}
    \cup {<<st, "Exited">> : st \in {"Starting", "Running", "Unhealthy", "Sunsetting"}}

\* C17: whenever a step gives an entry another status, the move is
\* Starting to Running, Running to Unhealthy, Running to Sunsetting, or from
\* a status other than Exited to Exited.
C17_StatusMoves ==
  [][processes_by_name' # processes_by_name =>
       \A ni \in Entries :
         LET after == StatusOf(processes_by_name', EntryAt(ni).name)
         IN after # <<>> /\ after[1] # EntryAt(ni).status =>
              <<EntryAt(ni).status, after[1]>> \in AllowedMoves]_vars

\* An entry found unhealthy, next to a newer version in Starting.
C17_Witness ==
  \E n \in DOMAIN processes_by_name :
    LET set == processes_by_name[n]
    IN /\ Len(set) >= 2
       /\ set[1].entry.status = "Unhealthy"
       /\ set[Len(set)].entry.status = "Starting"

NamesOf(set) == [k \in DOMAIN set |-> set[k].entry.name]

\* The entries of `before` that are still in `after` are there in the same
\* order, with the same spec and ports, and ahead of every entry that is new.
KeepsOrder(before, after) ==
  LET old == Range(NamesOf(before))
      kept == Range(NamesOf(after)) \cap old
  IN /\ SelectSeq(NamesOf(after), LAMBDA x : x \in old)
          = SelectSeq(NamesOf(before), LAMBDA x : x \in kept)
     /\ \A i, j \in DOMAIN after :
          i < j /\ after[j].entry.name \in old => after[i].entry.name \in old
     /\ \A i \in DOMAIN before, j \in DOMAIN after :
          before[i].entry.name = after[j].entry.name =>
            /\ before[i].spec = after[j].spec
            /\ before[i].entry.port_allocations = after[j].entry.port_allocations

\* C18: the launch step of a process set whose name is in the target appends
\* one entry, in Starting and with the target's spec, or logs the error of a
\* failed launch and leaves the set as it was, exactly when the set is empty
\* or the spec of its last entry is not the target's; otherwise it launches
\* nothing.  No step reorders or replaces the entries of a set.
C18_LaunchWhenOutOfDate ==
  [][/\ \A n \in DOMAIN processes_by_name :
          processes_by_name'[n] # processes_by_name[n] =>
            KeepsOrder(processes_by_name[n], processes_by_name'[n])
     /\ pc = "launch" =>
          LET n == hk.order[hk.i]
              before == processes_by_name[n]
              after == processes_by_name'[n]
          IN /\ \A m \in DOMAIN processes_by_name \ {n} :
                  processes_by_name'[m] = processes_by_name[m]
             /\ IF NeedsLaunch(n)
                THEN \/ /\ Len(after) = Len(before) + 1
                        /\ SubSeq(after, 1, Len(before)) = before
                        /\ after[Len(after)].spec = TargetSpec(target, n)[1]
                        /\ after[Len(after)].entry.status = "Starting"
                        /\ Logged("LaunchProcess")'
                     \/ /\ after = before
                        /\ Logged("Error")' \/ pc' = "hung"
                ELSE /\ after = before
                     /\ counter' = counter
                     /\ free_loopback_ports' = free_loopback_ports
                     /\ log_events' = <<>>]_vars

\* A version has just been appended behind an older one.
C18_Witness ==
  /\ Logged("LaunchProcess")
  /\ \E n \in DOMAIN processes_by_name :
       LET set == processes_by_name[n]
       IN /\ Len(set) >= 2
          /\ set[Len(set)].entry.status = "Starting"
          /\ set[Len(set)].spec = TargetSpec(target, n)[1]
          /\ set[1].spec # set[Len(set)].spec

\* C19: the weight step of a port of an entry logs a WeightChange for that
\* port, with weight 1 for a Running entry and 0 for any other, and asks the
\* adapter for that weight, exactly when the weight of the port in the
\* snapshot of this pass (0 when absent) is another one; otherwise it logs
\* nothing and leaves the table alone.
C19_WeightChangeIffCall ==
  [][pc = "weight" =>
       LET item == Head(hk.work)
           entry == processes_by_name[item.name][item.k].entry
           alloc == entry.port_allocations[item.a]
           target_weight == IF entry.status = "Running" THEN 1 ELSE 0
           snapshot_weight == LoopbackWeight(last_ipvs_state[1], alloc.port)
       IN IF snapshot_weight # target_weight
          THEN /\ log_events' = <<WeightChange(alloc.service, alloc.port, target_weight)>>
               /\ \/ LoopbackWeight(ipvs', alloc.port) = target_weight
                  \/ pc' = "return" /\ hk'.result = "Err" /\ ipvs' = ipvs
          ELSE /\ log_events' = <<>>
               /\ ipvs' = ipvs]_vars

\* What the gate of `key` answers and stores by the claim, given the time
\* `age` since the stored instant (<<>>: the key has never been consulted).
GateOpens(age, duration) == age # <<>> /\ age[1] > duration
GateStores(age, duration) ==
  IF age = <<>> THEN 0 ELSE IF age[1] > duration THEN 0 ELSE age[1]

AgeOf(map, key) == IF key \in DOMAIN map THEN <<map[key]>> ELSE <<>>

\* C20: at the health and start steps, for the key of every entry and for
\* every time since its stored instant around the interval, rate_limit
\* answers false when the key is new and otherwise true exactly when more
\* than the interval has passed, and it stores "now" for a new key and when it
\* answers true and keeps the stored instant when it answers false.  Hence
\* the step promotes a Starting entry or finds a Running entry unhealthy
\* only if the entry's key was stored earlier and its interval has passed.
C20_RateLimitGate ==
  [][(pc = "health" \/ pc = "start") =>
       LET set == processes_by_name[hk.order[hk.i]]
       IN \A k \in DOMAIN set :
            LET name == set[k].entry.name
                key == IF pc = "start" THEN StartKey(name) ELSE HealthKey(name)
                duration == IF pc = "start" THEN START_INTERVAL ELSE HEALTH_INTERVAL
                age == AgeOf(rate_limiting, key)
                after == StatusOf(processes_by_name', name)
            IN /\ \A a \in {<<>>, age, <<duration - 1>>, <<duration>>, <<duration + 1>>} :
                    LET without == [x \in DOMAIN rate_limiting \ {key} |-> rate_limiting[x]]
                        m == IF a = <<>> THEN without
                             ELSE [x \in DOMAIN rate_limiting \cup {key} |->
                                     IF x = key THEN a[1] ELSE rate_limiting[x]]
                    IN /\ rate_limit(m, key, duration) = GateOpens(a, duration)
                       /\ DOMAIN rate_limit_map(m, key, duration) = DOMAIN m \cup {key}
                       /\ rate_limit_map(m, key, duration)[key] = GateStores(a, duration)
                       /\ \A x \in DOMAIN m \ {key} :
                            rate_limit_map(m, key, duration)[x] = m[x]
               /\ after # <<set[k].entry.status>> /\ after # <<>> =>
                    /\ GateOpens(age, duration)
                    /\ rate_limiting'[key] = 0
               /\ (/\ set[k].entry.status = (IF pc = "start" THEN "Starting" ELSE "Running")
                   /\ (pc = "start" => k = Len(set))
                   /\ pc' # "return")
                    => rate_limiting'[key] = GateStores(age, duration)]_vars

\* The start key of a Starting entry has just been consulted for the first
\* time and the entry was not probed.
C20_Witness ==
  /\ pc = "sunset"
  /\ \E ni \in Entries :
       /\ EntryAt(ni).status = "Starting"
       /\ StartKey(EntryAt(ni).name) \in DOMAIN rate_limiting
       /\ rate_limiting[StartKey(EntryAt(ni).name)] = 0
       /\ HealthKey(EntryAt(ni).name) \notin DOMAIN rate_limiting

\* The CreateIpvsService events for the service called `name` among `events`.
CreateEvents(events, name) ==
  SelectSeq(events, LAMBDA e : e.type = "CreateIpvsService" /\ e.spec.name = name)

\* C21 as stated: a step logs a CreateIpvsService event for a service name
\* only if it is the one reset of that name, the step that marks the name
\* processed.
C21_ResetExactlyOnce ==
  [][\A name \in ServiceNames :
       CreateEvents(log_events', name) # <<>> =>
         /\ Len(CreateEvents(log_events', name)) = 1
         /\ name \notin processed_services
         /\ name \in processed_services']_vars

\* C21 amended: every attempt to reset a service deletes it and logs one
\* CreateIpvsService event, and only names not yet processed are attempted; a
\* name is marked processed in the step whose create succeeded, which leaves
\* its virtual service in the table with no real server; a processed name
\* stays processed, and the services step leaves its virtual service alone.
C21_ResetOncePerSuccess ==
  [][/\ processed_services \subseteq processed_services'
     /\ processed_services' # processed_services => pc = "services"
     /\ \A name \in ServiceNames :
          LET events == CreateEvents(log_events', name)
              found == FindService(target, name)
          IN /\ events # <<>> =>
                  /\ pc = "services"
                  /\ name \notin processed_services
                  /\ events = <<CreateIpvsService(found[1])>>
                  /\ \/ name \in processed_services'
                     \/ /\ pc' = "return" /\ hk'.result = "Err"
                        /\ Addr(found[1]) \notin DOMAIN ipvs'
             /\ name \in processed_services' \ processed_services =>
                  /\ events # <<>>
                  /\ Addr(found[1]) \in DOMAIN ipvs'
                  /\ ipvs'[Addr(found[1])] = EmptyMap
             /\ (pc = "services" /\ name \in processed_services /\ found # <<>>
                 /\ Addr(found[1]) \in DOMAIN ipvs) =>
                  /\ Addr(found[1]) \in DOMAIN ipvs'
                  /\ ipvs'[Addr(found[1])] = ipvs[Addr(found[1])]]_vars

\* The services step has just reset service s and marked it processed.
C21_Witness ==
  /\ pc = "launch"
  /\ CreateEvents(log_events, "s") # <<>>
  /\ "s" \in processed_services
  /\ Addr(Svc_s) \in DOMAIN ipvs

\* C22: allocate_port always returns, with a port or with an error: no launch
\* stays for ever in its loop over the free FIFO.
C22_AllocatePortTerminates == pc # "hung"

\* C23: every port of the configured range but the admin port is either in
\* the free FIFO or in the allocated set, never in both and never in
\* neither, and the free FIFO holds no port twice.
C23_PortsConserved ==
  /\ \A q \in Range(InitialFree) :
       (q \in Range(free_loopback_ports)) # (q \in allocated_ports)
  /\ Range(free_loopback_ports) \cup allocated_ports \subseteq Range(InitialFree)
  /\ Cardinality(Range(free_loopback_ports)) = Len(free_loopback_ports)

\* The entry called `name` is older than a Running entry of its set and its
\* child has not been sent SIGTERM.
Superseded(name) ==
  \E n \in DOMAIN processes_by_name :
    \E i, j \in DOMAIN processes_by_name[n] :
      /\ i < j
      /\ processes_by_name[n][i].entry.name = name
      /\ processes_by_name[n][i].entry.process = "running"
      /\ processes_by_name[n][j].entry.status = "Running"

\* C24: an entry that is older than a Running entry of its set is eventually
\* sent SIGTERM (or leaves the set), whatever its own status.
C24_OlderVersionsSunset ==
  \A name \in 0..PoolSize : Superseded(name) ~> ~Superseded(name)

\* The process names that have entries but are not in the target.
RemovedNames ==
  {n \in DOMAIN processes_by_name :
     processes_by_name[n] # <<>> /\ TargetSpec(target, n) = <<>>}

\* No step adds an entry to the set of a removed name.
NoLaunchForRemoved ==
  \A n \in RemovedNames :
    /\ Range(NamesOf(processes_by_name'[n])) \subseteq Range(NamesOf(processes_by_name[n]))
    /\ \A i \in DOMAIN log_events' :
         log_events'[i].type = "LaunchProcess" => log_events'[i].process_name # n

\* A Running entry of a removed name that has no newer Running entry next to
\* it stays Running, unless the health step demotes it or the reap step finds
\* its child exited; while it is Running the weight step asks for weight 1.
LoneRunningStays ==
  \A n \in RemovedNames :
    \A k \in DOMAIN processes_by_name[n] :
      LET set == processes_by_name[n]
          entry == set[k].entry
          after == StatusOf(processes_by_name', entry.name)
      IN (entry.status = "Running"
          /\ \A j \in DOMAIN set : j > k => set[j].entry.status # "Running") =>
           /\ \/ after = <<"Running">>
              \/ after = <<"Unhealthy">> /\ pc = "health"
              \/ after = <<"Exited">> /\ pc = "reap"
           /\ (pc = "weight" /\ Head(hk.work).name = n /\ Head(hk.work).k = k) =>
                LET alloc == entry.port_allocations[Head(hk.work).a]
                IN IF LoopbackWeight(last_ipvs_state[1], alloc.port) = 1
                   THEN log_events' = <<>>
                   ELSE log_events' = <<WeightChange(alloc.service, alloc.port, 1)>>

\* C25 as stated: for a process name that has entries but is not in the
\* target, no step launches anything, moves an entry to Sunsetting or sends
\* SIGTERM, and a Running entry stays Running with target weight 1 until its
\* child exits or a health probe demotes it.
C25_RemovedProcessLeftAlone ==
  [][processes_by_name' # processes_by_name \/ pc = "weight" =>
       /\ NoLaunchForRemoved
       /\ LoneRunningStays
       /\ \A n \in RemovedNames :
            \A k \in DOMAIN processes_by_name[n] :
              LET entry == processes_by_name[n][k].entry
              IN entry.status # "Sunsetting" /\ entry.process # "signalled" =>
                   \A j \in DOMAIN processes_by_name'[n] :
                     processes_by_name'[n][j].entry.name = entry.name =>
                       /\ processes_by_name'[n][j].entry.status # "Sunsetting"
                       /\ processes_by_name'[n][j].entry.process # "signalled"]_vars

\* C25 amended: for such a name nothing is launched, and a Running entry
\* with no newer Running entry next to it stays Running at target weight 1
\* until its child exits or a health probe demotes it; an entry is moved to
\* Sunsetting and sent SIGTERM only by the sunset step, when it is Running
\* and a newer entry of its set is Running.
C25_RemovedProcessStillSunsets ==
  [][processes_by_name' # processes_by_name \/ pc = "weight" =>
       /\ NoLaunchForRemoved
       /\ LoneRunningStays
       /\ \A n \in RemovedNames :
            \A k \in DOMAIN processes_by_name[n] :
              LET set == processes_by_name[n]
                  entry == set[k].entry
              IN entry.status # "Sunsetting" /\ entry.process # "signalled" =>
                   \A j \in DOMAIN processes_by_name'[n] :
                     (/\ processes_by_name'[n][j].entry.name = entry.name
                      /\ \/ processes_by_name'[n][j].entry.status = "Sunsetting"
                         \/ processes_by_name'[n][j].entry.process = "signalled") =>
                       /\ pc = "sunset"
                       /\ entry.status = "Running"
                       /\ \E i \in DOMAIN set : i > k /\ set[i].entry.status = "Running"
                       /\ processes_by_name'[n][j].entry.status = "Sunsetting"
                       /\ processes_by_name'[n][j].entry.process = "signalled"]_vars

\* The older version of a process that is no longer in the target has just
\* been sent SIGTERM, its newer version being Running.
C25_Witness ==
  /\ TargetSpec(target, "p") = <<>>
  /\ pc = "reap"
  /\ log_events # <<>> /\ log_events[1].type = "StatusChange"
  /\ Len(processes_by_name["p"]) = 2
  /\ processes_by_name["p"][1].entry.status = "Sunsetting"
  /\ processes_by_name["p"][2].entry.status = "Running"

\* Process q has a Running entry whose port has weight 1 in the IPVS table.
Reconciled(n) ==
  /\ n \in DOMAIN processes_by_name
  /\ \E k \in DOMAIN processes_by_name[n] :
       LET entry == processes_by_name[n][k].entry
       IN /\ entry.status = "Running"
          /\ \A q \in PortsOf(entry) : LoopbackWeight(ipvs, q) = 1

\* C26: while every probe of process p fails with the missing-port error,
\* process q, whose child is alive and healthy, still eventually has a
\* Running entry with weight 1 on its port.
C26_OtherProcessesReconciled ==
  (target = Target_duo) ~> Reconciled("q")

====
